---- MODULE Spec2Model ----
(***************************************************************************)
(* MoltBoss task marketplace: the request handlers of the HTTP server and   *)
(* the RedisStorage repository they call.  Every request is a process that *)
(* advances one `await` at a time, so two requests interleave exactly      *)
(* where the Node event loop lets them.  Records are TLA+ functions over    *)
(* field names: an optional field that was never written is absent from    *)
(* the record's DOMAIN, as in the stored JSON.                              *)
(***************************************************************************)
EXTENDS Integers, Sequences, FiniteSets, TLC

\* ------------------------------------------------------------------ bounds
NProcs == 2        \* requests the server handles at the same time
MaxTasks == 1      \* task ids createTask may hand out
MaxApps == 2       \* application ids createApplication may hand out
MaxReward == 2     \* rewards are 1..MaxReward (units of the smallest reward)
MaxFaults == 1     \* store calls that may throw in one behaviour
MaxRequests == 5   \* requests the server receives in one behaviour
MaxAgents == 2     \* agent ids createAgent may hand out

Procs == 1..NProcs
Rewards == 1..MaxReward
Wallets == {"w1", "w2"}
BadWallet == "bad"

\* Date.now().  No handler reads a timestamp back or branches on one, so a
\* single instant stands for every reading.
DateNow == 1

\* JavaScript null / undefined result of a lookup.
Null == [isNull |-> TRUE]

VARIABLES
  tasks,          \* redis keys task:<id>            id -> Task
  allTasks,       \* redis set all_tasks
  activeTasks,    \* redis set active_tasks
  apps,           \* redis keys application:<id>     id -> Application
  allApps,        \* redis set all_applications
  pendingApps,    \* redis set pending_applications
  taskApps,       \* redis sets task:<taskId>:applications
  stats,          \* redis hash stats
  agents,         \* redis keys agent:<id>                  id -> Agent
  agentByApiKey,  \* redis keys agent:apikey:<apiKey>     apiKey -> id
  agentByWallet,  \* redis keys agent:wallet:<wallet>     wallet -> id
  allAgents,      \* redis set all_agents
  payments,       \* transfers the treasury has sent, in order
  nextTaskId,     \* uuidv4() for tasks: ids are never reused
  nextAppId,      \* uuidv4() for applications
  nextAgentId,    \* uuidv4() and generateApiKey() for agents: the next draw
  faults,         \* store calls that have thrown so far
  started,        \* requests received so far
  pc,             \* per request: the await it is suspended at
  loc             \* per request: the handler's local variables

vars == <<tasks, allTasks, activeTasks, apps, allApps, pendingApps, taskApps,
          stats, agents, agentByApiKey, agentByWallet, allAgents, payments,
          nextTaskId, nextAppId, nextAgentId, faults, started, pc, loc>>

store == <<tasks, allTasks, activeTasks, apps, allApps, pendingApps, taskApps, stats>>

agentStore == <<agents, agentByApiKey, agentByWallet, allAgents, nextAgentId>>

\* ------------------------------------------------------------ repository
\* The store holds JSON text.  tasks, apps and agents keep each value as the
\* record JSON.parse yields from it: for the strings, booleans and finite
\* numbers the schemas admit, with an unset optional field absent from the
\* record, JSON.parse(JSON.stringify(v)) is v.
getTask(id) == IF id \in DOMAIN tasks THEN tasks[id] ELSE Null

getApplication(id) == IF id \in DOMAIN apps THEN apps[id] ELSE Null

\* A faulty variant of Merge in which an id among the updates wins.
MergeIdFromUpdates(record, updates, id) ==
  [f \in (DOMAIN record) \cup (DOMAIN updates) \cup {"id"} |->
     IF f \in DOMAIN updates THEN updates[f]
     ELSE IF f = "id" THEN id ELSE record[f]]

\* { ...record, ...updates, id }
Merge(record, updates, id) ==
  [f \in (DOMAIN record) \cup (DOMAIN updates) \cup {"id"} |->
     IF f = "id" THEN id
     ELSE IF f \in DOMAIN updates THEN updates[f] ELSE record[f]]

\* redis.set(key, value) / redis.del(key) on a family of keys
SetKey(table, id, value) ==
  [k \in (DOMAIN table) \cup {id} |-> IF k = id THEN value ELSE table[k]]

\* A faulty variant of DelKey that leaves the key in place.
DelKeyKept(table, id) == table

DelKey(table, id) == [k \in (DOMAIN table) \ {id} |-> table[k]]

\* A faulty variant of isValidWalletAddress that accepts any string.
AnyWalletAddress(address) == TRUE

\* A faulty variant of incrementStat that counts nothing.
incrementStatNothing(key, amount) == stats

\* A faulty variant of incrementStat that forgets the amount.
incrementStatByOne(key, amount) == [stats EXCEPT ![key] = @ + 1]

\* redis.hincrbyfloat('stats', key, amount)
incrementStat(key, amount) == [stats EXCEPT ![key] = @ + amount]

\* task.maxCompletions && ... : the field is set and truthy
HasMax(task) == "maxCompletions" \in DOMAIN task /\ task.maxCompletions # 0

\* A faulty variant of NoSlots that never finds a task full.
NoSlotsNever(task) == FALSE

\* task.maxCompletions && task.totalCompletions >= task.maxCompletions
NoSlots(task) == HasMax(task) /\ task.totalCompletions >= task.maxCompletions

isValidWalletAddress(address) == address \in Wallets

\* ---------------------------------------------------------------- inputs
\* Bodies that pass insertTaskSchema (maxCompletions is optional).
InsertTasks ==
  [title : {"A"}, proofType : {"text"}, reward : Rewards, active : BOOLEAN]
  \cup
  [title : {"A"}, proofType : {"text"}, reward : Rewards, active : BOOLEAN,
   maxCompletions : {1}]

\* Bodies that pass insertApplicationSchema.
InsertApplications ==
  [taskId : 1..MaxTasks, walletAddress : Wallets \cup {BadWallet}, proofContent : {"proof"}]

\* Bodies of PUT /api/admin/tasks/:id.  The handler does not validate them, so
\* a reward may also be one that insertTaskSchema would refuse, and a body may
\* carry an id of its own (0 is the id of no task).
TaskUpdates ==
  {[active |-> FALSE], [active |-> TRUE], [title |-> "B", id |-> 0]}
  \cup {[reward |-> r] : r \in Rewards \cup {-1}}

\* ----------------------------------------------------------------- state
Idle == [op |-> "idle"]

Init ==
  /\ tasks = <<>>
  /\ allTasks = {}
  /\ activeTasks = {}
  /\ apps = <<>>
  /\ allApps = {}
  /\ pendingApps = {}
  /\ taskApps = [t \in 1..MaxTasks |-> {}]
  /\ stats = [totalTasks |-> 0, totalApplications |-> 0, totalPayouts |-> 0,
              totalAgents |-> 0, totalCompletedTasks |-> 0]
  /\ agents = <<>>
  /\ agentByApiKey = <<>>
  /\ agentByWallet = <<>>
  /\ allAgents = {}
  /\ payments = <<>>
  /\ nextTaskId = 1
  /\ nextAppId = 1
  /\ nextAgentId = 1
  /\ faults = 0
  /\ started = 0
  /\ pc = [p \in Procs |-> "idle"]
  /\ loc = [p \in Procs |-> Idle]

\* res.status(code).json(body): the handler is over, its answer is in flight.
Reply(p, code, body) ==
  /\ pc' = [pc EXCEPT ![p] = "respond"]
  /\ loc' = [loc EXCEPT ![p] = [op |-> loc[p].op, code |-> code, body |-> body]]

Goto(p, label) == pc' = [pc EXCEPT ![p] = label]

\* The response has been sent: the request is gone.
Respond(p) ==
  /\ pc[p] = "respond"
  /\ pc' = [pc EXCEPT ![p] = "idle"]
  /\ loc' = [loc EXCEPT ![p] = Idle]
  /\ UNCHANGED <<agentStore, store, payments, nextTaskId, nextAppId, faults, started>>

\* ------------------------------------------- POST /api/admin/tasks (createTask)
\* createTask draws the id and the timestamp in the handler's first synchronous
\* segment, before its first call to the store.
\* A faulty variant of NewTask that publishes every task as active.
NewTaskActive(insertTask, id) ==
  Merge(insertTask, [totalCompletions |-> 0, createdAt |-> DateNow, active |-> TRUE], id)

\* const task: Task = { ...insertTask, id, totalCompletions: 0, createdAt: Date.now() }
NewTask(insertTask, id) ==
  Merge(insertTask, [totalCompletions |-> 0, createdAt |-> DateNow], id)

\* A faulty variant of AddsToActive that never indexes a new task.
AddsToActiveNever(task) == FALSE

\* if (task.active) in createTask
AddsToActive(task) == task.active

CreateTaskStart(p, insertTask) ==
  /\ pc[p] = "idle"
  /\ nextTaskId <= MaxTasks
  /\ nextTaskId' = nextTaskId + 1
  /\ started < MaxRequests
  /\ started' = started + 1
  /\ Goto(p, "ct_set")
  /\ loc' = [loc EXCEPT ![p] =
       [op |-> "createTask", insertTask |-> insertTask,
        task |-> NewTask(insertTask, nextTaskId)]]
  /\ UNCHANGED <<agentStore, store, payments, nextAppId, faults>>

CreateTaskSet(p) ==
  /\ pc[p] = "ct_set"
  /\ tasks' = SetKey(tasks, loc[p].task.id, loc[p].task)
  /\ Goto(p, "ct_saddAll")
  /\ UNCHANGED <<agentStore, allTasks, activeTasks, apps, allApps, pendingApps, taskApps, stats,
                 payments, nextTaskId, nextAppId, faults, started, loc>>

CreateTaskSaddAll(p) ==
  /\ pc[p] = "ct_saddAll"
  /\ allTasks' = allTasks \cup {loc[p].task.id}
  /\ Goto(p, IF AddsToActive(loc[p].task) THEN "ct_saddActive" ELSE "ct_stat")
  /\ UNCHANGED <<agentStore, tasks, activeTasks, apps, allApps, pendingApps, taskApps, stats,
                 payments, nextTaskId, nextAppId, faults, started, loc>>

CreateTaskSaddActive(p) ==
  /\ pc[p] = "ct_saddActive"
  /\ activeTasks' = activeTasks \cup {loc[p].task.id}
  /\ Goto(p, "ct_stat")
  /\ UNCHANGED <<agentStore, tasks, allTasks, apps, allApps, pendingApps, taskApps, stats,
                 payments, nextTaskId, nextAppId, faults, started, loc>>

CreateTaskStat(p) ==
  /\ pc[p] = "ct_stat"
  /\ stats' = incrementStat("totalTasks", 1)
  /\ Reply(p, 201, loc[p].task)
  /\ UNCHANGED <<agentStore, tasks, allTasks, activeTasks, apps, allApps, pendingApps, taskApps,
                 payments, nextTaskId, nextAppId, faults, started>>

\* -------------------------------- POST /api/applications (createApplication)
\* Submissions that have not drawn their id yet.
SubmitsInFlight ==
  Cardinality({q \in Procs : pc[q] \in {"sub_getTask", "au_key", "au_agent"}})

ApplyStart(p, body) ==
  /\ pc[p] = "idle"
  /\ started < MaxRequests
  /\ started' = started + 1
  /\ nextAppId + SubmitsInFlight <= MaxApps
  /\ IF ~isValidWalletAddress(body.walletAddress)
       THEN Reply(p, 400, "Invalid Solana wallet address")
       ELSE /\ Goto(p, "sub_getTask")
            /\ loc' = [loc EXCEPT ![p] = [op |-> "apply", body |-> body]]
  /\ UNCHANGED <<agentStore, store, payments, nextTaskId, nextAppId, faults>>

\* A faulty variant of NewApplication that copies the proof type into the title.
NewApplicationMistitled(id, app, taskTitle, proofType) ==
  [id |-> id, taskId |-> app.taskId, taskTitle |-> proofType,
   walletAddress |-> app.walletAddress, proofType |-> proofType,
   proofContent |-> app.proofContent, status |-> "pending", submittedAt |-> DateNow]

\* const application: Application = { id, taskId: app.taskId, taskTitle, ... }
NewApplication(id, app, taskTitle, proofType) ==
  [id |-> id, taskId |-> app.taskId, taskTitle |-> taskTitle,
   walletAddress |-> app.walletAddress, proofType |-> proofType,
   proofContent |-> app.proofContent, status |-> "pending", submittedAt |-> DateNow]

\* const task = await storage.getTask(taskId), the three checks, and the
\* synchronous head of createApplication (uuidv4(), Date.now()).
ApplyGetTask(p) ==
  /\ pc[p] = "sub_getTask"
  /\ LET body == loc[p].body
         task == getTask(body.taskId)
     IN IF task = Null THEN
          /\ Reply(p, 404, "Task not found")
          /\ UNCHANGED nextAppId
        ELSE IF ~task.active THEN
          /\ Reply(p, 400, "Task is no longer active")
          /\ UNCHANGED nextAppId
        ELSE IF NoSlots(task) THEN
          /\ Reply(p, 400, "No slots available for this task")
          /\ UNCHANGED nextAppId
        ELSE
          /\ nextAppId' = nextAppId + 1
          /\ Goto(p, "sub_set")
          /\ loc' = [loc EXCEPT ![p] =
               [op |-> loc[p].op,
                application |-> NewApplication(nextAppId, body, task.title, task.proofType)]]
  /\ UNCHANGED <<agentStore, store, payments, nextTaskId, faults, started>>

ApplySet(p) ==
  /\ pc[p] = "sub_set"
  /\ apps' = SetKey(apps, loc[p].application.id, loc[p].application)
  /\ Goto(p, "sub_saddAll")
  /\ UNCHANGED <<agentStore, tasks, allTasks, activeTasks, allApps, pendingApps, taskApps, stats,
                 payments, nextTaskId, nextAppId, faults, started, loc>>

ApplySaddAll(p) ==
  /\ pc[p] = "sub_saddAll"
  /\ allApps' = allApps \cup {loc[p].application.id}
  /\ Goto(p, "sub_saddPending")
  /\ UNCHANGED <<agentStore, tasks, allTasks, activeTasks, apps, pendingApps, taskApps, stats,
                 payments, nextTaskId, nextAppId, faults, started, loc>>

ApplySaddPending(p) ==
  /\ pc[p] = "sub_saddPending"
  /\ pendingApps' = pendingApps \cup {loc[p].application.id}
  /\ Goto(p, "sub_saddTask")
  /\ UNCHANGED <<agentStore, tasks, allTasks, activeTasks, apps, allApps, taskApps, stats,
                 payments, nextTaskId, nextAppId, faults, started, loc>>

ApplySaddTask(p) ==
  /\ pc[p] = "sub_saddTask"
  /\ taskApps' = [taskApps EXCEPT ![loc[p].application.taskId] = @ \cup {loc[p].application.id}]
  /\ Goto(p, "sub_stat")
  /\ UNCHANGED <<agentStore, tasks, allTasks, activeTasks, apps, allApps, pendingApps, stats,
                 payments, nextTaskId, nextAppId, faults, started, loc>>

ApplyStat(p) ==
  /\ pc[p] = "sub_stat"
  /\ stats' = incrementStat("totalApplications", 1)
  /\ Reply(p, 201, loc[p].application)
  /\ UNCHANGED <<agentStore, tasks, allTasks, activeTasks, apps, allApps, pendingApps, taskApps,
                 payments, nextTaskId, nextAppId, faults, started>>

\* ------------------------------------- PUT /api/admin/tasks/:id (updateTask)
UpdateTaskStart(p, id, updates) ==
  /\ pc[p] = "idle"
  /\ started < MaxRequests
  /\ started' = started + 1
  /\ Goto(p, "ut_getTask")
  /\ loc' = [loc EXCEPT ![p] = [op |-> "updateTask", id |-> id, updates |-> updates]]
  /\ UNCHANGED <<agentStore, store, payments, nextTaskId, nextAppId, faults>>

\* The handler's own getTask.
UpdateTaskGetTask(p) ==
  /\ pc[p] = "ut_getTask"
  /\ IF getTask(loc[p].id) = Null
       THEN Reply(p, 404, "Task not found")
       ELSE Goto(p, "ut_get") /\ UNCHANGED loc
  /\ UNCHANGED <<agentStore, store, payments, nextTaskId, nextAppId, faults, started>>

\* updateTask: const task = await this.getTask(id), then the merge.
UpdateTaskGet(p) ==
  /\ pc[p] = "ut_get"
  /\ LET task == getTask(loc[p].id)
     IN IF task = Null
          THEN Reply(p, 200, Null)
          ELSE /\ Goto(p, "ut_set")
               /\ loc' = [loc EXCEPT ![p] =
                    [op |-> "updateTask", id |-> loc[p].id, updates |-> loc[p].updates,
                     updatedTask |-> Merge(task, loc[p].updates, loc[p].id)]]
  /\ UNCHANGED <<agentStore, store, payments, nextTaskId, nextAppId, faults, started>>

UpdateTaskSet(p) ==
  /\ pc[p] = "ut_set"
  /\ tasks' = SetKey(tasks, loc[p].id, loc[p].updatedTask)
  /\ IF "active" \in DOMAIN loc[p].updates
       THEN Goto(p, "ut_active") /\ UNCHANGED loc
       ELSE Reply(p, 200, loc[p].updatedTask)
  /\ UNCHANGED <<agentStore, allTasks, activeTasks, apps, allApps, pendingApps, taskApps, stats,
                 payments, nextTaskId, nextAppId, faults, started>>

\* redis.sadd / redis.srem on active_tasks
UpdateTaskActive(p) ==
  /\ pc[p] = "ut_active"
  /\ activeTasks' = IF loc[p].updates.active
                      THEN activeTasks \cup {loc[p].id}
                      ELSE activeTasks \ {loc[p].id}
  /\ Reply(p, 200, loc[p].updatedTask)
  /\ UNCHANGED <<agentStore, tasks, allTasks, apps, allApps, pendingApps, taskApps, stats,
                 payments, nextTaskId, nextAppId, faults, started>>

\* ---------------------------------- DELETE /api/admin/tasks/:id (deleteTask)
DeleteTaskStart(p, id) ==
  /\ pc[p] = "idle"
  /\ started < MaxRequests
  /\ started' = started + 1
  /\ Goto(p, "dt_get")
  /\ loc' = [loc EXCEPT ![p] = [op |-> "deleteTask", id |-> id]]
  /\ UNCHANGED <<agentStore, store, payments, nextTaskId, nextAppId, faults>>

DeleteTaskGet(p) ==
  /\ pc[p] = "dt_get"
  /\ IF getTask(loc[p].id) = Null
       THEN Reply(p, 404, "Task not found")
       ELSE Goto(p, "dt_del") /\ UNCHANGED loc
  /\ UNCHANGED <<agentStore, store, payments, nextTaskId, nextAppId, faults, started>>

DeleteTaskDel(p) ==
  /\ pc[p] = "dt_del"
  /\ tasks' = DelKey(tasks, loc[p].id)
  /\ Goto(p, "dt_sremAll")
  /\ UNCHANGED <<agentStore, allTasks, activeTasks, apps, allApps, pendingApps, taskApps, stats,
                 payments, nextTaskId, nextAppId, faults, started, loc>>

DeleteTaskSremAll(p) ==
  /\ pc[p] = "dt_sremAll"
  /\ allTasks' = allTasks \ {loc[p].id}
  /\ Goto(p, "dt_sremActive")
  /\ UNCHANGED <<agentStore, tasks, activeTasks, apps, allApps, pendingApps, taskApps, stats,
                 payments, nextTaskId, nextAppId, faults, started, loc>>

DeleteTaskSremActive(p) ==
  /\ pc[p] = "dt_sremActive"
  /\ activeTasks' = activeTasks \ {loc[p].id}
  /\ Reply(p, 200, "Task deleted")
  /\ UNCHANGED <<agentStore, tasks, allTasks, apps, allApps, pendingApps, taskApps, stats,
                 payments, nextTaskId, nextAppId, faults, started>>

\* ------------------------- PUT /api/admin/applications/:id (approve / reject)
ReviewStatuses == {"approved", "rejected", "pending"}

\* Faulty variants of the guards below: each is a slip the properties at the
\* end must tell from the code.
AlreadyReviewedOnlyApproved(application) == application.status = "approved"

AlreadyReviewedNever(application) == FALSE

PaysOutAlways(status) == TRUE

TransferableAny(amountSOL) == TRUE

TaskMissingIgnored(task) == FALSE

PaymentFailedIgnored(paymentResult) == FALSE

IncrementBeforePayment == "itc_get"

\* application.status !== 'pending'
AlreadyReviewed(application) == application.status # "pending"

\* !task
TaskMissing(task) == task = Null

\* !paymentResult.success
PaymentFailed(paymentResult) == ~paymentResult.success

\* The label the approval continues at once the task has been found.
AfterTaskFound == "rv_pay"

\* status === 'approved': the review takes the payment branch
PaysOut(status) == status = "approved"

\* SystemProgram.transfer carries the lamports as an unsigned 64-bit integer:
\* no transaction transfers a negative amount.
Transferable(amountSOL) == amountSOL >= 0

ReviewStart(p, id, status) ==
  /\ pc[p] = "idle"
  /\ started < MaxRequests
  /\ started' = started + 1
  /\ IF status \notin {"approved", "rejected"}
       THEN Reply(p, 400, "Invalid status")
       ELSE /\ Goto(p, "rv_getApp")
            /\ loc' = [loc EXCEPT ![p] = [op |-> "review", id |-> id, status |-> status]]
  /\ UNCHANGED <<agentStore, store, payments, nextTaskId, nextAppId, faults>>

\* const application = await storage.getApplication(applicationId), the two
\* checks and the updates object.
ReviewGetApplication(p) ==
  /\ pc[p] = "rv_getApp"
  /\ LET application == getApplication(loc[p].id)
     IN IF application = Null THEN
          Reply(p, 404, "Application not found")
        ELSE IF AlreadyReviewed(application) THEN
          Reply(p, 400, "Application has already been reviewed")
        ELSE
          /\ Goto(p, IF PaysOut(loc[p].status) THEN "rv_getTask" ELSE "ua_get")
          /\ loc' = [loc EXCEPT ![p] =
               [op |-> "review", id |-> loc[p].id, status |-> loc[p].status,
                application |-> application,
                updates |-> [status |-> loc[p].status, reviewedAt |-> DateNow]]]
  /\ UNCHANGED <<agentStore, store, payments, nextTaskId, nextAppId, faults, started>>

\* const task = await storage.getTask(application.taskId)
ReviewGetTask(p) ==
  /\ pc[p] = "rv_getTask"
  /\ LET task == getTask(loc[p].application.taskId)
     IN IF TaskMissing(task)
          THEN Reply(p, 404, "Associated task not found")
          ELSE /\ Goto(p, AfterTaskFound)
               /\ loc' = [loc EXCEPT ![p] = [f \in DOMAIN @ \cup {"task"} |->
                                               IF f = "task" THEN task ELSE @[f]]]
  /\ UNCHANGED <<agentStore, store, payments, nextTaskId, nextAppId, faults, started>>

\* sendPayment(toWallet, amountSOL): the transfer is confirmed and its signature
\* returned, or an error is caught and reported.
sendPayment(toWallet, amountSOL, ok) ==
  IF ok /\ Transferable(amountSOL)
        THEN [success |-> TRUE, signature |-> Len(payments) + 1]
        ELSE [success |-> FALSE, error |-> "Failed to send payment"]

\* A faulty variant of PaidUpdates that stamps the payment time on submittedAt.
PaidUpdatesRestamped(updates, paymentResult) ==
  [f \in DOMAIN updates \cup {"submittedAt"}
         \cup (IF "signature" \in DOMAIN paymentResult THEN {"txSignature"} ELSE {}) |->
     IF f = "txSignature" THEN paymentResult.signature
     ELSE IF f = "submittedAt" THEN DateNow + 1
     ELSE updates[f]]

\* updates.txSignature = paymentResult.signature; updates.paidAt = Date.now()
\* (an undefined value is not serialised into the stored JSON).
PaidUpdates(updates, paymentResult) ==
  [f \in DOMAIN updates \cup {"paidAt"}
         \cup (IF "signature" \in DOMAIN paymentResult THEN {"txSignature"} ELSE {}) |->
     IF f = "txSignature" THEN paymentResult.signature
     ELSE IF f = "paidAt" THEN DateNow
     ELSE updates[f]]

ReviewSendPayment(p) ==
  /\ pc[p] = "rv_pay"
  /\ \E ok \in BOOLEAN :
       LET to == loc[p].application.walletAddress
           amount == loc[p].task.reward
           paymentResult == sendPayment(to, amount, ok)
       IN /\ payments' = IF paymentResult.success
                           THEN Append(payments, [to |-> to, amount |-> amount,
                                                  application |-> loc[p].id])
                           ELSE payments
          /\ IF PaymentFailed(paymentResult)
               THEN Reply(p, 500, "Failed to send payment")
               ELSE /\ Goto(p, "itc_get")
                    /\ loc' = [loc EXCEPT ![p].updates = PaidUpdates(@, paymentResult)]
  /\ UNCHANGED <<agentStore, store, nextTaskId, nextAppId, faults, started>>

\* A faulty variant of NextCompletions that writes the count back as read.
NextCompletionsSame(task) == task.totalCompletions

\* task.totalCompletions + 1, computed from the task incrementTaskCompletions
\* has just read
NextCompletions(task) == task.totalCompletions + 1

\* incrementTaskCompletions: const task = await this.getTask(id)
IncrementGet(p) ==
  /\ pc[p] = "itc_get"
  /\ LET task == getTask(loc[p].application.taskId)
     IN IF task = Null
          THEN Goto(p, "rv_stat") /\ UNCHANGED loc
          ELSE /\ Goto(p, "itc_uget")
               /\ loc' = [loc EXCEPT ![p] = [f \in DOMAIN @ \cup {"taskUpdates"} |->
                    IF f = "taskUpdates"
                      THEN [totalCompletions |-> NextCompletions(task)]
                      ELSE @[f]]]
  /\ UNCHANGED <<agentStore, store, payments, nextTaskId, nextAppId, faults, started>>

\* updateTask called by incrementTaskCompletions: its own getTask and the merge
IncrementUpdateGet(p) ==
  /\ pc[p] = "itc_uget"
  /\ LET id == loc[p].application.taskId
         task == getTask(id)
     IN IF task = Null
          THEN Goto(p, "itc_stat") /\ UNCHANGED loc
          ELSE /\ Goto(p, "itc_set")
               /\ loc' = [loc EXCEPT ![p] = [f \in DOMAIN @ \cup {"updatedTask"} |->
                    IF f = "updatedTask" THEN Merge(task, loc[p].taskUpdates, id)
                    ELSE @[f]]]
  /\ UNCHANGED <<agentStore, store, payments, nextTaskId, nextAppId, faults, started>>

IncrementSet(p) ==
  /\ pc[p] = "itc_set"
  /\ tasks' = SetKey(tasks, loc[p].updatedTask.id, loc[p].updatedTask)
  /\ Goto(p, "itc_stat")
  /\ UNCHANGED <<agentStore, allTasks, activeTasks, apps, allApps, pendingApps, taskApps, stats,
                 payments, nextTaskId, nextAppId, faults, started, loc>>

IncrementStat(p) ==
  /\ pc[p] = "itc_stat"
  /\ stats' = incrementStat("totalCompletedTasks", 1)
  /\ Goto(p, "rv_stat")
  /\ UNCHANGED <<agentStore, tasks, allTasks, activeTasks, apps, allApps, pendingApps, taskApps,
                 payments, nextTaskId, nextAppId, faults, started, loc>>

\* await storage.incrementStat('totalPayouts', task.reward)
ReviewStat(p) ==
  /\ pc[p] = "rv_stat"
  /\ stats' = incrementStat("totalPayouts", loc[p].task.reward)
  /\ Goto(p, "ua_get")
  /\ UNCHANGED <<agentStore, tasks, allTasks, activeTasks, apps, allApps, pendingApps, taskApps,
                 payments, nextTaskId, nextAppId, faults, started, loc>>

\* updateApplication: const app = await this.getApplication(id), then the merge
UpdateApplicationGet(p) ==
  /\ pc[p] = "ua_get"
  /\ LET app == getApplication(loc[p].id)
     IN IF app = Null
          THEN Reply(p, 200, Null)
          ELSE /\ Goto(p, "ua_set")
               /\ loc' = [loc EXCEPT ![p] = [f \in DOMAIN @ \cup {"updatedApp"} |->
                    IF f = "updatedApp" THEN Merge(app, loc[p].updates, loc[p].id)
                    ELSE @[f]]]
  /\ UNCHANGED <<agentStore, store, payments, nextTaskId, nextAppId, faults, started>>

UpdateApplicationSet(p) ==
  /\ pc[p] = "ua_set"
  /\ apps' = SetKey(apps, loc[p].id, loc[p].updatedApp)
  /\ IF "status" \in DOMAIN loc[p].updates /\ loc[p].updates.status # "pending"
       THEN Goto(p, "ua_srem") /\ UNCHANGED loc
       ELSE Reply(p, 200, loc[p].updatedApp)
  /\ UNCHANGED <<agentStore, tasks, allTasks, activeTasks, allApps, pendingApps, taskApps, stats,
                 payments, nextTaskId, nextAppId, faults, started>>

UpdateApplicationSrem(p) ==
  /\ pc[p] = "ua_srem"
  /\ pendingApps' = pendingApps \ {loc[p].id}
  /\ Reply(p, 200, loc[p].updatedApp)
  /\ UNCHANGED <<agentStore, tasks, allTasks, activeTasks, apps, allApps, taskApps, stats,
                 payments, nextTaskId, nextAppId, faults, started>>

\* ------------------------------------------------- catch (error) { ... 500 }
\* The labels at which a review is suspended on a call to the store.
StoreCalls ==
  {"rv_getApp", "rv_getTask", "itc_get", "itc_uget", "itc_set", "itc_stat", "rv_stat",
   "ua_get", "ua_set", "ua_srem"}

\* The store call rejects: nothing is written, the handler's catch answers 500.
StoreError(p) ==
  /\ pc[p] \in StoreCalls
  /\ faults < MaxFaults
  /\ faults' = faults + 1
  /\ Reply(p, 500, "Internal error")
  /\ UNCHANGED <<agentStore, store, payments, nextTaskId, nextAppId, started>>

\* ------------------------------------------------- verifyTransfer (solana.ts)
LAMPORTS_PER_SOL == 1000000000

\* An amount in SOL is a fraction, so that 0.1 SOL and amount / 1e9 are exact.
REGISTRATION_FEE == [num |-> 1, den |-> 10]

REGISTRATION_WALLET == "registration"

\* minAmount * 1e9
ToLamports(sol) == (sol.num * LAMPORTS_PER_SOL) \div sol.den

\* transfer.amount / 1e9
ToSOL(lamports) == [num |-> lamports, den |-> LAMPORTS_PER_SOL]

\* tx.transactionError of a transaction that failed on chain
TxError == [error |-> "InstructionError"]

\* Native transfers a transaction may carry.
NativeTransfers ==
  [fromUserAccount : Wallets, toUserAccount : {REGISTRATION_WALLET, "elsewhere"},
   amount : {ToLamports(REGISTRATION_FEE) - 1, ToLamports(REGISTRATION_FEE),
             ToLamports(REGISTRATION_FEE) + 1}]

TransferLists ==
  {<<>>} \cup {<<a>> : a \in NativeTransfers}
         \cup {<<a, b>> : a \in NativeTransfers, b \in NativeTransfers}

HeliusTransactions ==
  [transactionError : {Null, TxError}]
  \cup [transactionError : {Null, TxError}, nativeTransfers : TransferLists]

\* What the call to Helius can do: fetch or response.json() throws, the reply
\* is not ok, or the reply is a list whose first entry is the transaction,
\* null, or missing.
HeliusResponses ==
  {[kind |-> "throws"], [kind |-> "http", ok |-> FALSE]}
  \cup [kind : {"http"}, ok : {TRUE}, transactions : {<<>>, <<Null>>}]
  \cup [kind : {"http"}, ok : {TRUE}, transactions : {<<tx>> : tx \in HeliusTransactions}]

\* A faulty variant of the match that does not look at the sender.
MatchesAnySender(transfer, fromWallet, toWallet, minAmount) ==
  /\ transfer.toUserAccount = toWallet
  /\ transfer.amount >= ToLamports(minAmount)

\* The condition of the loop over tx.nativeTransfers.
Matches(transfer, fromWallet, toWallet, minAmount) ==
  /\ transfer.fromUserAccount = fromWallet
  /\ transfer.toUserAccount = toWallet
  /\ transfer.amount >= ToLamports(minAmount)

\* for (const transfer of tx.nativeTransfers || []) from entry i on
RECURSIVE ScanTransfers(_, _, _, _, _)
ScanTransfers(transfers, i, fromWallet, toWallet, minAmount) ==
  IF i > Len(transfers)
    THEN [valid |-> FALSE, error |-> "No matching transfer found in transaction"]
  ELSE IF Matches(transfers[i], fromWallet, toWallet, minAmount)
    THEN [valid |-> TRUE, amount |-> ToSOL(transfers[i].amount)]
  ELSE ScanTransfers(transfers, i + 1, fromWallet, toWallet, minAmount)

verifyTransfer(response, fromWallet, toWallet, minAmount) ==
  IF response.kind = "throws"
    THEN [valid |-> FALSE, error |-> "Failed to verify transaction"]
  ELSE IF ~response.ok
    THEN [valid |-> FALSE, error |-> "Failed to fetch transaction from Helius"]
  ELSE IF response.transactions = <<>> \/ response.transactions[1] = Null
    THEN [valid |-> FALSE, error |-> "Transaction not found"]
  ELSE LET tx == response.transactions[1]
       IN IF tx.transactionError # Null
            THEN [valid |-> FALSE, error |-> "Transaction failed on chain"]
            ELSE ScanTransfers(IF "nativeTransfers" \in DOMAIN tx
                                 THEN tx.nativeTransfers ELSE <<>>,
                               1, fromWallet, toWallet, minAmount)

verifyRegistrationPayment(response, fromWallet) ==
  verifyTransfer(response, fromWallet, REGISTRATION_WALLET, REGISTRATION_FEE)

\* A call of verifyTransfer on its own: the arguments and Helius's answer are
\* in loc, the result is put next to them.
VerifyArguments ==
  [op : {"verifyTransfer"}, response : HeliusResponses, fromWallet : Wallets,
   toWallet : {REGISTRATION_WALLET, "elsewhere"},
   minAmount : {REGISTRATION_FEE, [num |-> 1, den |-> 20]}]

InitVerify ==
  /\ tasks = <<>>
  /\ allTasks = {}
  /\ activeTasks = {}
  /\ apps = <<>>
  /\ allApps = {}
  /\ pendingApps = {}
  /\ taskApps = [t \in 1..MaxTasks |-> {}]
  /\ stats = [totalTasks |-> 0, totalApplications |-> 0, totalPayouts |-> 0,
              totalAgents |-> 0, totalCompletedTasks |-> 0]
  /\ agents = <<>>
  /\ agentByApiKey = <<>>
  /\ agentByWallet = <<>>
  /\ allAgents = {}
  /\ payments = <<>>
  /\ nextTaskId = 1
  /\ nextAppId = 1
  /\ nextAgentId = 1
  /\ faults = 0
  /\ started = 0
  /\ pc = [p \in Procs |-> IF p = 1 THEN "vt_call" ELSE "idle"]
  /\ \E arguments \in VerifyArguments :
       loc = [p \in Procs |-> IF p = 1 THEN arguments ELSE Idle]

VerifyTransferCall(p) ==
  /\ pc[p] = "vt_call"
  /\ Goto(p, "vt_return")
  /\ loc' = [loc EXCEPT ![p] = [f \in DOMAIN @ \cup {"verification"} |->
               IF f = "verification"
                 THEN verifyTransfer(@.response, @.fromWallet, @.toWallet, @.minAmount)
                 ELSE @[f]]]
  /\ UNCHANGED <<store, agentStore, payments, nextTaskId, nextAppId, faults, started>>

\* --------------------------------------- POST /api/agent/register (createAgent)
getAgent(id) == IF id \in DOMAIN agents THEN agents[id] ELSE Null

\* redis.get(`agent:wallet:${wallet}`) / redis.get(`agent:apikey:${apiKey}`)
getKey(table, key) == IF key \in DOMAIN table THEN [id |-> table[key]] ELSE Null

\* Bodies that pass registerAgentSchema.
RegisterAgents ==
  [name : {"agent"}, wallet : Wallets \cup {BadWallet}, txSignature : {"tx"}]

\* Faulty variants of the two guards of the registration.
WalletTakenIgnored(existingAgent) == FALSE

VerificationFailedIgnored(verification) == FALSE

\* existingAgent
WalletTaken(existingAgent) == existingAgent # Null

\* !verification.valid
VerificationFailed(verification) == ~verification.valid

\* Registrations that have not drawn their id yet.
RegistersInFlight ==
  Cardinality({q \in Procs : pc[q] \in {"rg_getWallet", "rg_getAgent", "rg_verify"}})

RegisterStart(p, body) ==
  /\ pc[p] = "idle"
  /\ started < MaxRequests
  /\ started' = started + 1
  /\ nextAgentId + RegistersInFlight <= MaxAgents
  /\ IF ~isValidWalletAddress(body.wallet)
       THEN /\ pc' = [pc EXCEPT ![p] = "respond"]
            /\ loc' = [loc EXCEPT ![p] =
                 [op |-> "register", code |-> 400, body |-> "Invalid Solana wallet address"]]
       ELSE /\ Goto(p, "rg_getWallet")
            /\ loc' = [loc EXCEPT ![p] = [op |-> "register", body |-> body]]
  /\ UNCHANGED <<store, agentStore, payments, nextTaskId, nextAppId, faults>>

\* getAgentByWallet: const agentId = await redis.get(`agent:wallet:${wallet}`);
\* without an id it returns null, and the handler's check sees that null.
RegisterGetWallet(p) ==
  /\ pc[p] = "rg_getWallet"
  /\ LET agentId == getKey(agentByWallet, loc[p].body.wallet)
     IN IF agentId # Null THEN
          /\ Goto(p, "rg_getAgent")
          /\ loc' = [loc EXCEPT ![p] =
               [op |-> "register", body |-> loc[p].body, agentId |-> agentId.id]]
        ELSE IF WalletTaken(Null) THEN
          Reply(p, 400, "Wallet already registered as an agent")
        ELSE
          /\ Goto(p, "rg_verify")
          /\ loc' = [loc EXCEPT ![p] =
               [op |-> "register", body |-> loc[p].body, existingAgent |-> Null]]
  /\ UNCHANGED <<store, agentStore, payments, nextTaskId, nextAppId, faults, started>>

\* getAgentByWallet: return this.getAgent(agentId), and the handler's check
RegisterGetAgent(p) ==
  /\ pc[p] = "rg_getAgent"
  /\ LET existingAgent == getAgent(loc[p].agentId)
     IN IF WalletTaken(existingAgent)
          THEN Reply(p, 400, "Wallet already registered as an agent")
          ELSE /\ Goto(p, "rg_verify")
               /\ loc' = [loc EXCEPT ![p] =
                    [op |-> "register", body |-> loc[p].body,
                     existingAgent |-> existingAgent]]
  /\ UNCHANGED <<store, agentStore, payments, nextTaskId, nextAppId, faults, started>>

\* The agent createAgent builds before its first call to the store;
\* verification.amount is undefined, and dropped by JSON.stringify, when the
\* verification carries none.
\* The random characters of an API key.
KeyChars == 32

\* The first of the characters generateApiKey draws from.
Alphabet == <<"A", "B", "C", "D", "E", "F", "G", "H">>

\* generateApiKey(): 'mb_' and KeyChars random characters.  The n-th key drawn
\* is the one whose random characters are all the n-th of the alphabet (the
\* digit 0 for n = 0): two draws never give the same key.
generateApiKey(n) ==
  <<"m", "b", "_">> \o [i \in 1..KeyChars |-> IF n = 0 THEN "0" ELSE Alphabet[n]]

NewAgent(id, apiKey, body, verification) ==
  [f \in {"id", "name", "walletAddress", "apiKey", "paymentTxSignature", "createdAt",
          "active", "tasksCreated"}
         \cup (IF "amount" \in DOMAIN verification THEN {"paymentAmount"} ELSE {}) |->
     CASE f = "id" -> id
       [] f = "name" -> body.name
       [] f = "walletAddress" -> body.wallet
       [] f = "apiKey" -> apiKey
       [] f = "paymentTxSignature" -> body.txSignature
       [] f = "paymentAmount" -> verification.amount
       [] f = "createdAt" -> DateNow
       [] f = "active" -> TRUE
       [] f = "tasksCreated" -> 0]

\* const verification = await verifyRegistrationPayment(txSignature, wallet),
\* the check, and the synchronous head of createAgent (uuidv4(),
\* generateApiKey(): both fresh).
RegisterVerify(p) ==
  /\ pc[p] = "rg_verify"
  /\ \E response \in HeliusResponses :
       LET verification == verifyRegistrationPayment(response, loc[p].body.wallet)
       IN IF VerificationFailed(verification)
            THEN /\ Reply(p, 400, "Payment verification failed")
                 /\ UNCHANGED nextAgentId
            ELSE /\ nextAgentId' = nextAgentId + 1
                 /\ Goto(p, "ca_set")
                 /\ loc' = [loc EXCEPT ![p] =
                      [op |-> "register",
                       agent |-> NewAgent(nextAgentId, generateApiKey(nextAgentId),
                                         loc[p].body, verification)]]
  /\ UNCHANGED <<store, agents, agentByApiKey, agentByWallet, allAgents, payments,
                 nextTaskId, nextAppId, faults, started>>

CreateAgentSet(p) ==
  /\ pc[p] = "ca_set"
  /\ agents' = SetKey(agents, loc[p].agent.id, loc[p].agent)
  /\ Goto(p, "ca_setApiKey")
  /\ UNCHANGED <<store, agentByApiKey, agentByWallet, allAgents, nextAgentId, payments,
                 nextTaskId, nextAppId, faults, started, loc>>

CreateAgentSetApiKey(p) ==
  /\ pc[p] = "ca_setApiKey"
  /\ agentByApiKey' = SetKey(agentByApiKey, loc[p].agent.apiKey, loc[p].agent.id)
  /\ Goto(p, "ca_setWallet")
  /\ UNCHANGED <<store, agents, agentByWallet, allAgents, nextAgentId, payments,
                 nextTaskId, nextAppId, faults, started, loc>>

CreateAgentSetWallet(p) ==
  /\ pc[p] = "ca_setWallet"
  /\ agentByWallet' = SetKey(agentByWallet, loc[p].agent.walletAddress, loc[p].agent.id)
  /\ Goto(p, "ca_sadd")
  /\ UNCHANGED <<store, agents, agentByApiKey, allAgents, nextAgentId, payments,
                 nextTaskId, nextAppId, faults, started, loc>>

CreateAgentSadd(p) ==
  /\ pc[p] = "ca_sadd"
  /\ allAgents' = allAgents \cup {loc[p].agent.id}
  /\ Goto(p, "ca_stat")
  /\ UNCHANGED <<store, agents, agentByApiKey, agentByWallet, nextAgentId, payments,
                 nextTaskId, nextAppId, faults, started, loc>>

\* await this.incrementStat('totalAgents'), and the handler's answer
CreateAgentStat(p) ==
  /\ pc[p] = "ca_stat"
  /\ stats' = incrementStat("totalAgents", 1)
  /\ Reply(p, 201, [success |-> TRUE,
                    agent |-> [f \in {"id", "name", "walletAddress", "apiKey", "createdAt"} |->
                                 loc[p].agent[f]]])
  /\ UNCHANGED <<tasks, allTasks, activeTasks, apps, allApps, pendingApps, taskApps,
                 agentStore, payments, nextTaskId, nextAppId, faults, started>>

\* ------------------------------------ POST /api/agent/apply (agentAuth, apply)
NoApiKey == [absent |-> TRUE]

\* The x-api-key header: absent, or a key (of an agent or of nobody).
ApiKeyHeaders == {NoApiKey} \cup {[key |-> generateApiKey(k)] : k \in 1..MaxAgents}

AgentApplyStart(p, apiKey, body) ==
  /\ pc[p] = "idle"
  /\ started < MaxRequests
  /\ started' = started + 1
  /\ nextAppId + SubmitsInFlight <= MaxApps
  /\ IF apiKey = NoApiKey
       THEN /\ pc' = [pc EXCEPT ![p] = "respond"]
            /\ loc' = [loc EXCEPT ![p] =
                 [op |-> "agentApply", code |-> 401, body |-> "Unauthorized: API key required"]]
       ELSE /\ Goto(p, "au_key")
            /\ loc' = [loc EXCEPT ![p] =
                 [op |-> "agentApply", apiKey |-> apiKey.key, body |-> body]]
  /\ UNCHANGED <<store, agentStore, payments, nextTaskId, nextAppId, faults>>

\* getAgentByApiKey: const agentId = await redis.get(`agent:apikey:${apiKey}`)
AgentAuthGetKey(p) ==
  /\ pc[p] = "au_key"
  /\ LET agentId == getKey(agentByApiKey, loc[p].apiKey)
     IN IF agentId = Null
          THEN Reply(p, 401, "Unauthorized: Invalid API key")
          ELSE /\ Goto(p, "au_agent")
               /\ loc' = [loc EXCEPT ![p] =
                    [op |-> "agentApply", agentId |-> agentId.id, body |-> loc[p].body]]
  /\ UNCHANGED <<store, agentStore, payments, nextTaskId, nextAppId, faults, started>>

\* getAgentByApiKey: return this.getAgent(agentId); the rest of agentAuth; and
\* the handler up to its getTask.
AgentAuthGetAgent(p) ==
  /\ pc[p] = "au_agent"
  /\ LET agent == getAgent(loc[p].agentId)
     IN IF agent = Null THEN
          Reply(p, 401, "Unauthorized: Invalid API key")
        ELSE IF ~agent.active THEN
          Reply(p, 403, "Forbidden: Agent account is inactive")
        ELSE IF ~isValidWalletAddress(loc[p].body.walletAddress) THEN
          Reply(p, 400, "Invalid Solana wallet address")
        ELSE
          /\ Goto(p, "sub_getTask")
          /\ loc' = [loc EXCEPT ![p] = [op |-> "agentApply", body |-> loc[p].body]]
  /\ UNCHANGED <<store, agentStore, payments, nextTaskId, nextAppId, faults, started>>

\* ------------------------------------------------ GET /api/tasks/:id (getTask)
GetTaskStart(p, id) ==
  /\ pc[p] = "idle"
  /\ started < MaxRequests
  /\ started' = started + 1
  /\ Goto(p, "gt_get")
  /\ loc' = [loc EXCEPT ![p] = [op |-> "getTask", id |-> id]]
  /\ UNCHANGED <<agentStore, store, payments, nextTaskId, nextAppId, faults>>

GetTaskGet(p) ==
  /\ pc[p] = "gt_get"
  /\ LET task == getTask(loc[p].id)
     IN IF task = Null
          THEN Reply(p, 404, "Task not found")
          ELSE Reply(p, 200, task)
  /\ UNCHANGED <<agentStore, store, payments, nextTaskId, nextAppId, faults, started>>

\* ---------------------------------------------- GET /api/tasks (getActiveTasks)
\* The orders in which redis.smembers may return the members of a set.
Orders(S) ==
  {order \in [1..Cardinality(S) -> S] : \A i, j \in 1..Cardinality(S) : i # j => order[i] # order[j]}

\* Array.prototype.sort((a, b) => b.createdAt - a.createdAt): a stable sort,
\* newest first, as an insertion of each entry after those not older than it.
RECURSIVE InsertNewestFirst(_, _)
InsertNewestFirst(sorted, task) ==
  IF sorted = <<>> THEN <<task>>
  ELSE IF Head(sorted).createdAt >= task.createdAt
    THEN <<Head(sorted)>> \o InsertNewestFirst(Tail(sorted), task)
    ELSE <<task>> \o sorted

RECURSIVE SortNewestFirst(_)
SortNewestFirst(list) ==
  IF list = <<>> THEN <<>>
  ELSE InsertNewestFirst(SortNewestFirst(SubSeq(list, 1, Len(list) - 1)), list[Len(list)])

\* if (task && task.active) tasks.push(task)
Listed(task) == task # Null /\ task.active

ListActiveStart(p) ==
  /\ pc[p] = "idle"
  /\ started < MaxRequests
  /\ started' = started + 1
  /\ Goto(p, "lat_smembers")
  /\ loc' = [loc EXCEPT ![p] = [op |-> "listActive"]]
  /\ UNCHANGED <<agentStore, store, payments, nextTaskId, nextAppId, faults>>

\* const ids = await redis.smembers('active_tasks'); if (!ids.length) return []
ListActiveSmembers(p) ==
  /\ pc[p] = "lat_smembers"
  /\ IF activeTasks = {}
       THEN Reply(p, 200, <<>>)
       ELSE \E ids \in Orders(activeTasks) :
              /\ Goto(p, "lat_get")
              /\ loc' = [loc EXCEPT ![p] = [op |-> "listActive", ids |-> ids, tasks |-> <<>>]]
  /\ UNCHANGED <<agentStore, store, payments, nextTaskId, nextAppId, faults, started>>

\* One turn of the loop: const task = await this.getTask(id); after the last
\* turn the list is sorted and returned.
ListActiveGet(p) ==
  /\ pc[p] = "lat_get"
  /\ LET task == getTask(Head(loc[p].ids))
         found == IF Listed(task) THEN Append(loc[p].tasks, task) ELSE loc[p].tasks
     IN IF Tail(loc[p].ids) = <<>>
          THEN Reply(p, 200, SortNewestFirst(found))
          ELSE /\ loc' = [loc EXCEPT ![p] =
                    [op |-> "listActive", ids |-> Tail(loc[p].ids), tasks |-> found]]
               /\ UNCHANGED pc
  /\ UNCHANGED <<agentStore, store, payments, nextTaskId, nextAppId, faults, started>>

\* ------------------------------------------------------------- adminAuth
\* process.env.ADMIN_PASSWORD || "Moremore16": the password is never empty.
ADMIN_PASSWORD == "Moremore16"

\* The x-admin-password header: absent, or a string.
NoPassword == [absent |-> TRUE]

AdminPasswords == {NoPassword, [value |-> "wrong"], [value |-> ADMIN_PASSWORD]}

\* A faulty variant of WrongPassword that lets every request through.
WrongPasswordNever(password) == FALSE

\* password !== ADMIN_PASSWORD
WrongPassword(password) == password # [value |-> ADMIN_PASSWORD]

\* The middleware in front of every admin route: it answers 401 itself, or
\* calls next(), which runs the synchronous head of the route's handler.  The
\* Start actions above are requests that have passed it.
adminAuth(p, password, handler) ==
  IF WrongPassword(password)
    THEN /\ pc[p] = "idle"
         /\ started < MaxRequests
         /\ started' = started + 1
         /\ pc' = [pc EXCEPT ![p] = "respond"]
         /\ loc' = [loc EXCEPT ![p] =
              [op |-> "adminAuth", code |-> 401, body |-> "Unauthorized: Invalid admin password"]]
         /\ UNCHANGED <<agentStore, store, payments, nextTaskId, nextAppId, faults>>
    ELSE handler

\* ------------------------------------ GET /api/admin/agents (getAllAgents)
\* A faulty variant of Redact that returns the key whole.
RedactNothing(apiKey) == apiKey

\* agent.apiKey.substring(0, 10) + '...'
Redact(apiKey) ==
  SubSeq(apiKey, 1, IF Len(apiKey) < 10 THEN Len(apiKey) ELSE 10) \o <<".", ".", ".">>

\* { ...agent, apiKey: ... }
SafeAgent(agent) == [agent EXCEPT !.apiKey = Redact(@)]

ListAgentsStart(p) ==
  /\ pc[p] = "idle"
  /\ started < MaxRequests
  /\ started' = started + 1
  /\ Goto(p, "lag_smembers")
  /\ loc' = [loc EXCEPT ![p] = [op |-> "listAgents"]]
  /\ UNCHANGED <<agentStore, store, payments, nextTaskId, nextAppId, faults>>

\* const ids = await redis.smembers('all_agents'); if (!ids.length) return []
ListAgentsSmembers(p) ==
  /\ pc[p] = "lag_smembers"
  /\ IF allAgents = {}
       THEN Reply(p, 200, <<>>)
       ELSE \E ids \in Orders(allAgents) :
              /\ Goto(p, "lag_get")
              /\ loc' = [loc EXCEPT ![p] = [op |-> "listAgents", ids |-> ids, agents |-> <<>>]]
  /\ UNCHANGED <<agentStore, store, payments, nextTaskId, nextAppId, faults, started>>

\* One turn of the loop: const agent = await this.getAgent(id); after the last
\* turn the list is sorted, and the handler redacts every entry and answers.
ListAgentsGet(p) ==
  /\ pc[p] = "lag_get"
  /\ LET agent == getAgent(Head(loc[p].ids))
         found == IF agent # Null THEN Append(loc[p].agents, agent) ELSE loc[p].agents
     IN IF Tail(loc[p].ids) = <<>>
          THEN LET sorted == SortNewestFirst(found)
               IN Reply(p, 200, [i \in 1..Len(sorted) |-> SafeAgent(sorted[i])])
          ELSE /\ loc' = [loc EXCEPT ![p] =
                    [op |-> "listAgents", ids |-> Tail(loc[p].ids), agents |-> found]]
               /\ UNCHANGED pc
  /\ UNCHANGED <<agentStore, store, payments, nextTaskId, nextAppId, faults, started>>

\* The admin's listing of the agents.
ListsAgents(p) ==
  \/ ListAgentsStart(p)
  \/ ListAgentsSmembers(p)
  \/ ListAgentsGet(p)

\* The registration of an agent.
Registers(p) ==
  \/ \E body \in RegisterAgents : RegisterStart(p, body)
  \/ RegisterGetWallet(p)
  \/ RegisterGetAgent(p)
  \/ RegisterVerify(p)
  \/ CreateAgentSet(p)
  \/ CreateAgentSetApiKey(p)
  \/ CreateAgentSetWallet(p)
  \/ CreateAgentSadd(p)
  \/ CreateAgentStat(p)

\* The submission of a registered agent, up to the path it shares with the
\* public one.
AgentApplies(p) ==
  \/ \E apiKey \in ApiKeyHeaders, body \in InsertApplications : AgentApplyStart(p, apiKey, body)
  \/ AgentAuthGetKey(p)
  \/ AgentAuthGetAgent(p)

\* ------------------------------------------------------------------ system
\* The requests of the marketplace flow: create a task, apply, review.
Flow(p) ==
  \/ Respond(p)
  \/ \E insertTask \in InsertTasks : CreateTaskStart(p, insertTask)
  \/ CreateTaskSet(p)
  \/ CreateTaskSaddAll(p)
  \/ CreateTaskSaddActive(p)
  \/ CreateTaskStat(p)
  \/ \E body \in InsertApplications : ApplyStart(p, body)
  \/ ApplyGetTask(p)
  \/ ApplySet(p)
  \/ ApplySaddAll(p)
  \/ ApplySaddPending(p)
  \/ ApplySaddTask(p)
  \/ ApplyStat(p)
  \/ \E id \in 1..MaxApps, status \in ReviewStatuses : ReviewStart(p, id, status)
  \/ ReviewGetApplication(p)
  \/ ReviewGetTask(p)
  \/ ReviewSendPayment(p)
  \/ IncrementGet(p)
  \/ IncrementUpdateGet(p)
  \/ IncrementSet(p)
  \/ IncrementStat(p)
  \/ ReviewStat(p)
  \/ UpdateApplicationGet(p)
  \/ UpdateApplicationSet(p)
  \/ UpdateApplicationSrem(p)

\* The admin's edits of a task.
Edits(p) ==
  \/ \E id \in 1..MaxTasks, updates \in TaskUpdates : UpdateTaskStart(p, id, updates)
  \/ UpdateTaskGetTask(p)
  \/ UpdateTaskGet(p)
  \/ UpdateTaskSet(p)
  \/ UpdateTaskActive(p)
  \/ \E id \in 1..MaxTasks : DeleteTaskStart(p, id)
  \/ DeleteTaskGet(p)
  \/ DeleteTaskDel(p)
  \/ DeleteTaskSremAll(p)
  \/ DeleteTaskSremActive(p)

\* The requests that create a record: a task, an application.
Creates(p) ==
  \/ Respond(p)
  \/ \E insertTask \in InsertTasks : CreateTaskStart(p, insertTask)
  \/ CreateTaskSet(p)
  \/ CreateTaskSaddAll(p)
  \/ CreateTaskSaddActive(p)
  \/ CreateTaskStat(p)
  \/ \E body \in InsertApplications : ApplyStart(p, body)
  \/ ApplyGetTask(p)
  \/ ApplySet(p)
  \/ ApplySaddAll(p)
  \/ ApplySaddPending(p)
  \/ ApplySaddTask(p)
  \/ ApplyStat(p)

\* Passwords and API keys that authorise nobody: no header, a password that
\* is not the admin's, a key createAgent never draws.
UnauthorizedPasswords == AdminPasswords \ {[value |-> ADMIN_PASSWORD]}

UnauthorizedApiKeys == {NoApiKey, [key |-> generateApiKey(0)]}

\* The requests of a client that has neither the admin password nor an API
\* key, on the admin routes and on an agent route.
Unauthorized(p) ==
  \/ Respond(p)
  \/ \E password \in UnauthorizedPasswords, insertTask \in InsertTasks :
       adminAuth(p, password, CreateTaskStart(p, insertTask))
  \/ \E password \in UnauthorizedPasswords, id \in 1..MaxTasks, updates \in TaskUpdates :
       adminAuth(p, password, UpdateTaskStart(p, id, updates))
  \/ \E password \in UnauthorizedPasswords, id \in 1..MaxTasks :
       adminAuth(p, password, DeleteTaskStart(p, id))
  \/ \E password \in UnauthorizedPasswords, id \in 1..MaxApps, status \in ReviewStatuses :
       adminAuth(p, password, ReviewStart(p, id, status))
  \/ \E password \in UnauthorizedPasswords : adminAuth(p, password, ListAgentsStart(p))
  \/ \E apiKey \in UnauthorizedApiKeys, body \in InsertApplications :
       AgentApplyStart(p, apiKey, body)
  \/ AgentAuthGetKey(p)

\* The public reads of tasks.
Reads(p) ==
  \/ \E id \in 1..MaxTasks : GetTaskStart(p, id)
  \/ GetTaskGet(p)
  \/ ListActiveStart(p)
  \/ ListActiveSmembers(p)
  \/ ListActiveGet(p)

Next == \E p \in Procs : Flow(p) \/ Edits(p)

Spec == Init /\ [][Next]_vars

\* The same server when it is sent one request at a time.
NextSeq == \E p \in {1} : Flow(p) \/ Edits(p)

SpecSeq == Init /\ [][NextSeq]_vars

\* verifyTransfer called once, on every answer Helius can give.
NextVerify == \E p \in Procs : VerifyTransferCall(p)

SpecVerify == InitVerify /\ [][NextVerify]_vars

\* The same server when it is sent registrations only.
NextRegister == \E p \in Procs : Respond(p) \/ Registers(p)

SpecRegister == Init /\ [][NextRegister]_vars

\* The same server when it is sent one request at a time, of any kind, the
\* agents' included.
NextSeqAll == \E p \in {1} : Flow(p) \/ Edits(p) \/ Registers(p) \/ AgentApplies(p)

SpecSeqAll == Init /\ [][NextSeqAll]_vars

\* One request at a time over the task and application routes and the reads.
NextSeqRead == \E p \in {1} : Flow(p) \/ Edits(p) \/ Reads(p)

SpecSeqRead == Init /\ [][NextSeqRead]_vars

\* The same server when it is sent creations only: of tasks, of applications
\* and of agents.
NextCreate == \E p \in Procs : Creates(p) \/ Registers(p)

SpecCreate == Init /\ [][NextCreate]_vars

\* The same server when it is sent registrations and listings of the agents.
NextAgents == \E p \in Procs : Respond(p) \/ Registers(p) \/ ListsAgents(p)

SpecAgents == Init /\ [][NextAgents]_vars

\* One client sends requests of every kind, one at a time, with the credentials
\* they need; another sends requests without them.
NextAuth ==
  \/ \E p \in {1} : Flow(p) \/ Edits(p) \/ Registers(p) \/ AgentApplies(p)
  \/ \E p \in {2} : Unauthorized(p)

SpecAuth == Init /\ [][NextAuth]_vars

\* The same server when a call to the store may fail under a review.
NextFaulty == \E p \in Procs : Flow(p) \/ StoreError(p)

SpecFaulty == Init /\ [][NextFaulty]_vars

\* ================================================================ properties
AllIdle == \A p \in Procs : pc[p] = "idle"

Approved == {a \in DOMAIN apps : apps[a].status = "approved"}

\* Transfers sent under reviews of application a.
PayoutsFor(a) == Cardinality({i \in 1..Len(payments) : payments[i].application = a})

RECURSIVE SumRewards(_)
SumRewards(S) ==
  IF S = {} THEN 0
  ELSE LET a == CHOOSE x \in S : TRUE
       IN tasks[apps[a].taskId].reward + SumRewards(S \ {a})

\* Labels only an approval passes through (a rejection goes straight to ua_get).
ApprovalLabels == {"rv_getTask", "rv_pay", "itc_get", "itc_uget", "itc_set", "itc_stat", "rv_stat"}

ReviewLabels == ApprovalLabels \cup {"rv_getApp", "ua_get", "ua_set", "ua_srem"}

\* Request p takes a step.
Steps(p) == pc'[p] # pc[p]

\* C1: for every task with maxCompletions set, totalCompletions never exceeds
\* maxCompletions (task updates in this model never write either field).
C1_CompletionsWithinMax ==
  \A t \in DOMAIN tasks :
    HasMax(tasks[t]) => tasks[t].totalCompletions <= tasks[t].maxCompletions

\* C2: a review that reads a stored status other than pending answers 400
\* "already reviewed" and changes neither the store nor the payments.
C2_ReviewedIsRejected ==
  [][\A p \in Procs :
       (/\ pc[p] = "rv_getApp"
        /\ Steps(p)
        /\ loc[p].id \in DOMAIN apps
        /\ apps[loc[p].id].status # "pending")
       => (/\ pc'[p] = "respond"
           /\ loc'[p].code = 400
           /\ loc'[p].body = "Application has already been reviewed"
           /\ store' = store
           /\ payments' = payments)]_vars

\* C2 happens: a review has just been refused as already reviewed.
C2_Witness ==
  \E p \in Procs :
    /\ pc[p] = "respond"
    /\ loc[p].op = "review"
    /\ loc[p].code = 400
    /\ loc[p].body = "Application has already been reviewed"

\* C3: the stored status of an application only moves from pending to approved
\* or rejected, and a record whose status is not pending is never written again.
C3_ReviewedOnce ==
  [][\A a \in DOMAIN apps :
       /\ apps[a].status # "pending" => apps'[a] = apps[a]
       /\ apps'[a].status # apps[a].status => apps'[a].status \in {"approved", "rejected"}]_vars

\* C4: txSignature and paidAt are both set exactly when the status is approved.
C4_PaidIffApproved ==
  \A a \in DOMAIN apps :
    ("txSignature" \in DOMAIN apps[a] /\ "paidAt" \in DOMAIN apps[a])
      <=> apps[a].status = "approved"

\* C5: once every request has been answered, totalCompletedTasks is the number
\* of approved applications.
C5_CompletedIsApprovedCount ==
  AllIdle => stats.totalCompletedTasks = Cardinality(Approved)

\* C6: once every request has been answered (and every approved application's
\* task still exists), totalPayouts is the sum of the rewards of the tasks of
\* the approved applications.
C6_PayoutsIsRewardSum ==
  (AllIdle /\ \A a \in Approved : apps[a].taskId \in DOMAIN tasks)
    => stats.totalPayouts = SumRewards(Approved)

\* C7: every request that is in the approval path read the application as
\* pending: nothing but that read stands between a request and the payment.
C7_PayersReadPending ==
  \A p \in Procs :
    pc[p] \in ApprovalLabels =>
      loc[p].status = "approved" /\ loc[p].application.status = "pending"

\* C7 happens: two payouts were sent for one application that is still pending
\* in the store.
C7_Witness ==
  \E a \in DOMAIN apps : apps[a].status = "pending" /\ PayoutsFor(a) >= 2

\* C8: when sendPayment reports failure the request answers 500 and writes
\* nothing to the store.
C8_FailedPaymentCommitsNothing ==
  [][\A p \in Procs :
       (pc[p] = "rv_pay" /\ Steps(p) /\ payments' = payments)
       => (/\ pc'[p] = "respond"
           /\ loc'[p].code = 500
           /\ loc'[p].body = "Failed to send payment"
           /\ store' = store)]_vars

\* C8 happens: an approval was answered with the payment failure while its
\* application is pending and unpaid.
C8_Witness ==
  \E p \in Procs :
    /\ pc[p] = "respond"
    /\ loc[p].op = "review"
    /\ loc[p].code = 500
    /\ loc[p].body = "Failed to send payment"
    /\ \E a \in DOMAIN apps :
         /\ apps[a].status = "pending"
         /\ DOMAIN apps[a] \cap {"txSignature", "paidAt", "reviewedAt"} = {}
         /\ PayoutsFor(a) = 0

\* C9: when the approval's getTask finds no task, the request answers 404,
\* sends no payment and writes nothing to the store.
C9_MissingTaskAborts ==
  [][\A p \in Procs :
       (/\ pc[p] = "rv_getTask"
        /\ Steps(p)
        /\ loc[p].application.taskId \notin DOMAIN tasks)
       => (/\ pc'[p] = "respond"
           /\ loc'[p].code = 404
           /\ loc'[p].body = "Associated task not found"
           /\ store' = store
           /\ payments' = payments)]_vars

\* C9 happens: an approval was refused because the task is gone, and the
\* application is still pending.
C9_Witness ==
  \E p \in Procs :
    /\ pc[p] = "respond"
    /\ loc[p].op = "review"
    /\ loc[p].code = 404
    /\ loc[p].body = "Associated task not found"
    /\ \E a \in DOMAIN apps :
         apps[a].status = "pending" /\ apps[a].taskId \notin DOMAIN tasks

\* C10: an approval writes to the store only after its sendPayment has returned
\* a signature.
C10_NoWriteBeforePayment ==
  [][\A p \in Procs :
       (/\ pc[p] \in ReviewLabels
        /\ loc[p].status = "approved"
        /\ Steps(p)
        /\ store' # store)
       => "txSignature" \in DOMAIN loc[p].updates]_vars

\* C10 happens: the approval stopped after the payment, no request is running,
\* and the paid application is still pending without a txSignature.
C10_Witness ==
  /\ AllIdle
  /\ faults > 0
  /\ \E a \in DOMAIN apps :
       /\ apps[a].status = "pending"
       /\ "txSignature" \notin DOMAIN apps[a]
       /\ PayoutsFor(a) >= 1

\* The label a sequential approval reaches from each label once the payment
\* has succeeded.
ApprovalSuccessor ==
  [rv_pay |-> "itc_get", itc_get |-> "itc_uget", itc_uget |-> "itc_set",
   itc_set |-> "itc_stat", itc_stat |-> "rv_stat", rv_stat |-> "ua_get",
   ua_get |-> "ua_set", ua_set |-> "ua_srem", ua_srem |-> "respond"]

\* C11: with one request at a time, an approval whose payment succeeds sends
\* exactly one transfer, to the application's wallet and of the reward of the
\* stored task; it then runs to its answer, and on the way raises the task's
\* totalCompletions by one, totalCompletedTasks by one and totalPayouts by
\* that reward, and stores the application as approved with the signature of
\* that transfer; it changes nothing else of these.
C11_ApprovalEffects ==
  [][\A p \in Procs :
       (/\ loc[p].op = "review"
        /\ pc[p] \in DOMAIN ApprovalSuccessor
        /\ loc[p].status = "approved"
        /\ Steps(p))
       => LET id == loc[p].id
              t == loc[p].application.taskId
          IN /\ pc[p] = "rv_pay" =>
                  /\ store' = store
                  /\ \/ payments' = payments /\ pc'[p] = "respond"
                     \/ /\ payments' = Append(payments,
                                         [to |-> apps[id].walletAddress,
                                          amount |-> tasks[t].reward,
                                          application |-> id])
                        /\ PayoutsFor(id) = 0
                        /\ pc'[p] = "itc_get"
             /\ pc[p] # "rv_pay" =>
                  /\ payments' = payments
                  /\ pc'[p] = ApprovalSuccessor[pc[p]]
                  /\ PayoutsFor(id) = 1
                  /\ payments[loc[p].updates.txSignature] =
                       [to |-> apps[id].walletAddress, amount |-> tasks[t].reward,
                        application |-> id]
             /\ tasks' = IF pc[p] = "itc_set"
                           THEN [tasks EXCEPT ![t].totalCompletions = @ + 1]
                           ELSE tasks
             /\ stats' = IF pc[p] = "itc_stat"
                           THEN [stats EXCEPT !.totalCompletedTasks = @ + 1]
                         ELSE IF pc[p] = "rv_stat"
                           THEN [stats EXCEPT !.totalPayouts = @ + tasks[t].reward]
                         ELSE stats
             /\ pc[p] = "ua_set" =>
                  /\ apps'[id].status = "approved"
                  /\ apps'[id].txSignature = loc[p].updates.txSignature
                  /\ tasks[t].totalCompletions = loc[p].task.totalCompletions + 1
             /\ pc[p] # "ua_set" => apps' = apps]_vars

\* C11 happens: an approval has been answered with the approved application,
\* one transfer of the task's reward was sent to its wallet and the counters
\* stand one completion and that reward higher than at the start.
C11_Witness ==
  \E p \in Procs :
    /\ pc[p] = "respond"
    /\ loc[p].op = "review"
    /\ loc[p].code = 200
    /\ loc[p].body.status = "approved"
    /\ loc[p].body.txSignature = 1
    /\ Len(payments) = 1
    /\ payments[1].to = loc[p].body.walletAddress
    /\ payments[1].amount = 2
    /\ apps[loc[p].body.id] = loc[p].body
    /\ tasks[loc[p].body.taskId].totalCompletions = 1
    /\ stats.totalCompletedTasks = 1
    /\ stats.totalPayouts = 2

\* C12: a request that rejects an application it read as pending stores the
\* status rejected with a reviewedAt, never enters the payment branch, sends
\* no transfer, puts no txSignature or paidAt on the record that the record
\* did not carry already, and changes no task, no statistic and no other
\* application.
C12_RejectionFrame ==
  [][\A p \in Procs :
       (/\ loc[p].op = "review"
        /\ pc[p] \in ReviewLabels
        /\ loc[p].status = "rejected"
        /\ Steps(p))
       => LET id == loc[p].id
          IN /\ pc'[p] \notin ApprovalLabels
             /\ payments' = payments
             /\ tasks' = tasks
             /\ stats' = stats
             /\ pc[p] = "ua_set" =>
                  /\ apps'[id].status = "rejected"
                  /\ "reviewedAt" \in DOMAIN apps'[id]
                  /\ \A f \in {"txSignature", "paidAt"} :
                       f \in DOMAIN apps'[id] =>
                         f \in DOMAIN apps[id] /\ apps'[id][f] = apps[id][f]
                  /\ \A a \in DOMAIN apps \ {id} : apps'[a] = apps[a]
             /\ pc[p] # "ua_set" => apps' = apps]_vars

\* C12 happens: a rejection has been answered with the rejected application,
\* which carries a reviewedAt and no payment fields, and nothing was paid or
\* counted.
C12_Witness ==
  \E p \in Procs :
    /\ pc[p] = "respond"
    /\ loc[p].op = "review"
    /\ loc[p].code = 200
    /\ loc[p].body.status = "rejected"
    /\ "reviewedAt" \in DOMAIN loc[p].body
    /\ DOMAIN loc[p].body \cap {"txSignature", "paidAt"} = {}
    /\ apps[loc[p].body.id] = loc[p].body
    /\ payments = <<>>
    /\ stats.totalPayouts = 0
    /\ stats.totalCompletedTasks = 0

\* C19: the reward of a stored task is never changed by any step.
C19_RewardFixed ==
  [][\A t \in DOMAIN tasks \cap DOMAIN tasks' : tasks'[t].reward = tasks[t].reward]_vars

\* The transaction the answer carries, or Null.
TransactionOf(response) ==
  IF /\ response.kind = "http"
     /\ response.ok
     /\ Len(response.transactions) >= 1
    THEN response.transactions[1]
    ELSE Null

\* The entries of the transaction's nativeTransfers that go from fromWallet to
\* toWallet and carry at least minAmount.
MatchingTransfers(tx, fromWallet, toWallet, minAmount) ==
  IF tx = Null \/ "nativeTransfers" \notin DOMAIN tx THEN {}
  ELSE {i \in 1..Len(tx.nativeTransfers) :
          /\ tx.nativeTransfers[i].fromUserAccount = fromWallet
          /\ tx.nativeTransfers[i].toUserAccount = toWallet
          /\ tx.nativeTransfers[i].amount * minAmount.den
               >= minAmount.num * LAMPORTS_PER_SOL}

\* C17: verifyTransfer answers valid exactly when the transaction was found,
\* has no on-chain error and carries a native transfer from the wallet to the
\* destination of at least the minimum; the amount it then returns is that of
\* the first such transfer; in every other case, a throwing fetch included,
\* it answers valid = false with an error text and no amount.
C17_VerifyTransfer ==
  \A p \in Procs :
    pc[p] = "vt_return" =>
      LET a == loc[p]
          tx == TransactionOf(a.response)
          matching == MatchingTransfers(tx, a.fromWallet, a.toWallet, a.minAmount)
          first == CHOOSE i \in matching : \A j \in matching : i <= j
      IN /\ a.verification.valid <=>
              (tx # Null /\ tx.transactionError = Null /\ matching # {})
         /\ a.verification.valid =>
              /\ a.verification.amount.num = tx.nativeTransfers[first].amount
              /\ a.verification.amount.den = LAMPORTS_PER_SOL
              /\ "error" \notin DOMAIN a.verification
         /\ ~a.verification.valid =>
              DOMAIN a.verification = {"valid", "error"}

\* C17 happens: verifyTransfer has answered valid on a transaction whose first
\* transfer does not match (wrong sender) and whose second does, with the
\* second one's amount.
C17_Witness ==
  \E p \in Procs :
    /\ pc[p] = "vt_return"
    /\ loc[p].verification.valid
    /\ LET tx == TransactionOf(loc[p].response)
       IN /\ Len(tx.nativeTransfers) = 2
          /\ tx.nativeTransfers[1].fromUserAccount # loc[p].fromWallet
          /\ tx.nativeTransfers[1].amount # tx.nativeTransfers[2].amount
          /\ loc[p].verification.amount = ToSOL(tx.nativeTransfers[2].amount)

\* The labels of a submission between its checks and its answer.
CreateApplicationLabels == {"sub_set", "sub_saddAll", "sub_saddPending", "sub_saddTask", "sub_stat"}

\* The stored task a submission needs: it exists, is active and, if it has a
\* maxCompletions, has fewer completions than that.
Open(t) ==
  /\ t \in DOMAIN tasks
  /\ tasks[t].active
  /\ "maxCompletions" \in DOMAIN tasks[t] =>
       tasks[t].totalCompletions < tasks[t].maxCompletions

Bound(wallet) ==
  wallet \in DOMAIN agentByWallet /\ agentByWallet[wallet] \in DOMAIN agents

\* C14: a registration that finds its wallet bound to an existing agent goes
\* from the lookup of the wallet key to the lookup of the agent and from there
\* to the answer 400 "already registered": it never reaches the payment
\* verification and changes no agent key and no statistic; and a wallet once
\* bound stays bound.
C14_BoundWalletRejected ==
  [][/\ \A p \in Procs :
          (/\ pc[p] \in {"rg_getWallet", "rg_getAgent"}
           /\ Steps(p)
           /\ Bound(loc[p].body.wallet))
          => /\ IF pc[p] = "rg_getWallet"
                  THEN pc'[p] = "rg_getAgent"
                  ELSE /\ pc'[p] = "respond"
                       /\ loc'[p].code = 400
                       /\ loc'[p].body = "Wallet already registered as an agent"
             /\ store' = store
             /\ agentStore' = agentStore
     /\ \A w \in Wallets : Bound(w) => Bound(w)']_vars

\* C14 happens: with one agent registered, a second registration has been
\* refused because its wallet is taken, and there is still one agent.
C14_Witness ==
  \E p \in Procs :
    /\ pc[p] = "respond"
    /\ loc[p].op = "register"
    /\ loc[p].code = 400
    /\ loc[p].body = "Wallet already registered as an agent"
    /\ Cardinality(DOMAIN agents) = 1
    /\ stats.totalAgents = 1

\* C15: no two agent records carry the same walletAddress.
C15_OneAgentPerWallet ==
  \A a, b \in DOMAIN agents :
    agents[a].walletAddress = agents[b].walletAddress => a = b

\* C16: the step that verifies the payment either answers 400 "Payment
\* verification failed" and changes no agent key and no statistic, or goes on
\* to createAgent with a verified amount of at least the registration fee:
\* a verification that is not valid never leads to an agent.
C16_UnverifiedRejected ==
  [][\A p \in Procs :
       (pc[p] = "rg_verify" /\ Steps(p))
       => \/ /\ pc'[p] = "respond"
             /\ loc'[p].code = 400
             /\ loc'[p].body = "Payment verification failed"
             /\ store' = store
             /\ agentStore' = agentStore
          \/ /\ pc'[p] = "ca_set"
             /\ "paymentAmount" \in DOMAIN loc'[p].agent
             /\ loc'[p].agent.paymentAmount.num * REGISTRATION_FEE.den
                  >= REGISTRATION_FEE.num * loc'[p].agent.paymentAmount.den
             /\ loc'[p].agent.walletAddress = loc[p].body.wallet]_vars

\* C16 happens: a registration has been refused for its payment, and no agent
\* record, lookup key, set entry or count exists.
C16_Witness ==
  \E p \in Procs :
    /\ pc[p] = "respond"
    /\ loc[p].op = "register"
    /\ loc[p].code = 400
    /\ loc[p].body = "Payment verification failed"
    /\ DOMAIN agents = {}
    /\ DOMAIN agentByApiKey = {}
    /\ DOMAIN agentByWallet = {}
    /\ allAgents = {}
    /\ stats.totalAgents = 0

\* The labels at which a registration is suspended on the store.
RegisterStoreLabels ==
  {"rg_getWallet", "rg_getAgent", "ca_set", "ca_setApiKey", "ca_setWallet", "ca_sadd", "ca_stat"}

\* C18: a registration is at a call to the store or to the verification only
\* with a well-formed wallet address, and at the verification or in
\* createAgent only after its lookup of the wallet has returned no agent; a
\* registration answered for its address has been nowhere else.
C18_RegistrationOrder ==
  \A p \in Procs :
    /\ (pc[p] \in {"rg_getWallet", "rg_getAgent", "rg_verify"})
         => loc[p].body.wallet \in Wallets
    /\ pc[p] = "rg_verify"
         => "existingAgent" \in DOMAIN loc[p] /\ loc[p].existingAgent = Null
    /\ (pc[p] \in RegisterStoreLabels \ {"rg_getWallet", "rg_getAgent"})
         => loc[p].agent.walletAddress \in Wallets
    /\ (pc[p] = "respond" /\ loc[p].op = "register" /\ loc[p].code = 201)
         => loc[p].body.agent.walletAddress \in Wallets

\* C18 happens: a registration with a malformed address has been refused
\* while nothing has been stored or verified.
C18_Witness ==
  \E p \in Procs :
    /\ pc[p] = "respond"
    /\ loc[p].op = "register"
    /\ loc[p].code = 400
    /\ loc[p].body = "Invalid Solana wallet address"
    /\ DOMAIN agents = {}
    /\ nextAgentId = 1

C22_IncrementIsReadThenWrite ==
  [][\A p \in Procs :
       /\ (pc[p] = "itc_get" /\ Steps(p) /\ pc'[p] = "itc_uget") =>
            loc'[p].taskUpdates.totalCompletions
              = tasks[loc[p].application.taskId].totalCompletions + 1
       /\ (pc[p] = "itc_uget" /\ Steps(p) /\ pc'[p] = "itc_set") =>
            loc'[p].updatedTask.totalCompletions = loc[p].taskUpdates.totalCompletions
       /\ (pc[p] = "itc_set" /\ Steps(p)) =>
            tasks'[loc[p].application.taskId].totalCompletions
              = loc[p].taskUpdates.totalCompletions]_vars

\* Both applications of task 1 are approved and paid, no request is in
\* progress, and the task counts one completion.
C22_Witness ==
  /\ AllIdle
  /\ 1 \in DOMAIN tasks
  /\ Cardinality({a \in Approved : apps[a].taskId = 1 /\ PayoutsFor(a) = 1}) = 2
  /\ tasks[1].totalCompletions = 1

\* C30: whenever no request is in progress, pending_applications holds an
\* application id exactly when the stored Application has status pending.
C30_PendingIndexMatchesStatus ==
  AllIdle =>
    /\ pendingApps \subseteq DOMAIN apps
    /\ \A a \in DOMAIN apps : a \in pendingApps <=> apps[a].status = "pending"

\* C24: an Application is created with status pending and with the title and
\* proof type its Task has when the submission reads it, it is stored as
\* built, and no step of a task update, a completion increment or a task
\* delete changes any Application afterwards.
C24_ApplicationSnapshot ==
  [][\A p \in Procs :
       /\ (pc[p] = "sub_getTask" /\ pc'[p] = "sub_set") =>
            LET application == loc'[p].application
                task == tasks[loc[p].body.taskId]
            IN /\ application.status = "pending"
               /\ application.taskTitle = task.title
               /\ application.proofType = task.proofType
               /\ application.taskId = loc[p].body.taskId
       /\ (pc[p] = "sub_set" /\ Steps(p)) =>
            apps'[loc[p].application.id] = loc[p].application
       /\ (Steps(p) /\ (\/ loc[p].op \in {"updateTask", "deleteTask"}
                         \/ loc'[p].op \in {"updateTask", "deleteTask"}
                         \/ pc[p] \in {"itc_get", "itc_uget", "itc_set"})) =>
            UNCHANGED <<apps, allApps, pendingApps, taskApps>>]_vars

\* An Application still carries the title its Task had at submission although
\* the Task has since been retitled.
C24_Witness ==
  /\ AllIdle
  /\ 1 \in DOMAIN tasks /\ tasks[1].title = "B"
  /\ \E a \in DOMAIN apps : apps[a].taskId = 1 /\ apps[a].taskTitle = "A"

\* C25: with one request at a time, deleting an existing Task removes its
\* record and removes its id from all_tasks and active_tasks, so that none of
\* the three holds it when the handler answers; no step of the delete changes
\* an Application record, all_applications, pending_applications, a per-task
\* application set or the statistics.  Deleting a Task that does not exist
\* answers 404 and changes nothing.
C25_DeleteFrame ==
  [][\A p \in Procs :
       (Steps(p) /\ (loc[p].op = "deleteTask" \/ loc'[p].op = "deleteTask")) =>
         /\ UNCHANGED <<apps, allApps, pendingApps, taskApps, stats, payments, agentStore>>
         /\ \A t \in DOMAIN tasks' : t \in DOMAIN tasks /\ tasks'[t] = tasks[t]
         /\ allTasks' \subseteq allTasks
         /\ activeTasks' \subseteq activeTasks
         /\ pc[p] = "dt_get" =>
              IF loc[p].id \in DOMAIN tasks
                THEN pc'[p] = "dt_del" /\ UNCHANGED store
                ELSE /\ pc'[p] = "respond" /\ loc'[p].code = 404
                     /\ UNCHANGED store
         /\ pc[p] = "dt_del" => tasks' = [t \in DOMAIN tasks \ {loc[p].id} |-> tasks[t]]
         /\ pc[p] = "dt_sremAll" => allTasks' = allTasks \ {loc[p].id}
         /\ pc[p] = "dt_sremActive" =>
              /\ activeTasks' = activeTasks \ {loc[p].id}
              /\ loc'[p].code = 200
              /\ loc[p].id \notin DOMAIN tasks'
              /\ loc[p].id \notin allTasks'
              /\ loc[p].id \notin activeTasks']_vars

\* A delete has answered 200 for a Task that had an Application: the Task is
\* gone, the Application and its index entries are still there.
C25_Witness ==
  \E p \in Procs :
    /\ pc[p] = "respond" /\ loc[p].op = "deleteTask" /\ loc[p].code = 200
    /\ tasks = <<>> /\ allTasks = {} /\ activeTasks = {}
    /\ \E a \in DOMAIN apps :
         /\ apps[a].taskId \notin DOMAIN tasks
         /\ a \in allApps /\ a \in pendingApps /\ a \in taskApps[apps[a].taskId]

\* What { ...record, ...updates, id } has to be, field by field.
MergedFrom(new, old, updates, id) ==
  /\ DOMAIN new = DOMAIN old \cup DOMAIN updates \cup {"id"}
  /\ new.id = id
  /\ \A f \in DOMAIN new \ {"id"} :
       new[f] = IF f \in DOMAIN updates THEN updates[f] ELSE old[f]

\* C26: with one request at a time, the record updateTask or updateApplication
\* writes has every field of the update at the update's value, every other
\* field at its stored value and the key as its id, even when the update
\* carries another id; no other record changes.  An update of a record that
\* does not exist answers not-found and writes nothing.
C26_UpdateMerges ==
  [][\A p \in Procs :
       /\ (pc[p] = "ut_set" /\ Steps(p)) =>
            /\ MergedFrom(tasks'[loc[p].id], tasks[loc[p].id], loc[p].updates, loc[p].id)
            /\ DOMAIN tasks' = DOMAIN tasks
            /\ \A t \in DOMAIN tasks \ {loc[p].id} : tasks'[t] = tasks[t]
       /\ (pc[p] = "itc_set" /\ Steps(p)) =>
            LET id == loc[p].application.taskId
            IN /\ MergedFrom(tasks'[id], tasks[id], loc[p].taskUpdates, id)
               /\ DOMAIN tasks' = DOMAIN tasks
               /\ \A t \in DOMAIN tasks \ {id} : tasks'[t] = tasks[t]
       /\ (pc[p] = "ua_set" /\ Steps(p)) =>
            /\ MergedFrom(apps'[loc[p].id], apps[loc[p].id], loc[p].updates, loc[p].id)
            /\ DOMAIN apps' = DOMAIN apps
            /\ \A a \in DOMAIN apps \ {loc[p].id} : apps'[a] = apps[a]
       /\ (pc[p] \in {"ut_getTask", "ut_get"} /\ Steps(p) /\ loc[p].id \notin DOMAIN tasks) =>
            /\ pc'[p] = "respond"
            /\ IF pc[p] = "ut_getTask" THEN loc'[p].code = 404 ELSE loc'[p].body = Null
            /\ UNCHANGED store
       /\ (pc[p] \in {"rv_getApp", "ua_get"} /\ Steps(p) /\ loc[p].id \notin DOMAIN apps) =>
            /\ pc'[p] = "respond"
            /\ IF pc[p] = "rv_getApp" THEN loc'[p].code = 404 ELSE loc'[p].body = Null
            /\ UNCHANGED store]_vars

\* An update whose body carried the id 0 and a new title has answered: the
\* stored Task has the new title, its other fields, and its key as id.
C26_Witness ==
  \E p \in Procs :
    /\ pc[p] = "respond" /\ loc[p].op = "updateTask" /\ loc[p].code = 200
    /\ 1 \in DOMAIN tasks /\ loc[p].body = tasks[1]
    /\ tasks[1].title = "B" /\ tasks[1].id = 1 /\ tasks[1].totalCompletions = 1

C27_ActiveListing ==
  \A p \in Procs :
    (pc[p] = "respond" /\ loc[p].op = "listActive") =>
      /\ loc[p].code = 200
      /\ {loc[p].body[i] : i \in 1..Len(loc[p].body)}
           = {tasks[t] : t \in {u \in DOMAIN tasks : tasks[u].active}}
      /\ Len(loc[p].body) = Cardinality({u \in DOMAIN tasks : tasks[u].active})

\* A listing has answered a Task that was created, completed once,
\* and is active.
C27_Witness ==
  \E p \in Procs :
    /\ pc[p] = "respond" /\ loc[p].op = "listActive" /\ loc[p].code = 200
    /\ Len(loc[p].body) = 1
    /\ loc[p].body[1].totalCompletions = 1

\* C21: whenever no request is in progress, totalTasks is the number of task
\* creations, totalApplications the number of Applications created and
\* totalAgents the number of Agents created, whatever the interleaving.
C21_CountersMatchCreations ==
  AllIdle =>
    /\ stats.totalTasks = nextTaskId - 1
    /\ stats.totalApplications = nextAppId - 1
    /\ stats.totalApplications = Cardinality(DOMAIN apps)
    /\ stats.totalAgents = nextAgentId - 1
    /\ stats.totalAgents = Cardinality(DOMAIN agents)

\* A task, two applications and two agents have been created and no request is
\* in progress.
C21_Witness ==
  /\ AllIdle
  /\ stats.totalTasks = 1 /\ stats.totalApplications = 2 /\ stats.totalAgents = 2

\* The API keys createAgent has drawn so far.
IssuedKeys == {generateApiKey(n) : n \in 1..(nextAgentId - 1)}

\* text contains key as a run of consecutive characters
Contains(text, key) ==
  \E offset \in 0..(Len(text) - Len(key)) : SubSeq(text, offset + 1, offset + Len(key)) = key

\* C29: a response carries the complete API key of an Agent only if it is the
\* 201 of the registration that created that Agent; no entry of the admin's
\* agent listing contains the complete key of any Agent, its own included.
C29_KeyOnlyAtRegistration ==
  \A p \in Procs :
    pc[p] = "respond" =>
      /\ (loc[p].op = "register" /\ loc[p].code = 201) =>
           /\ loc[p].body.agent.apiKey = generateApiKey(loc[p].body.agent.id)
           /\ \A q \in Procs \ {p} :
                (pc[q] = "respond" /\ loc[q].op = "register" /\ loc[q].code = 201) =>
                  loc[q].body.agent.apiKey # loc[p].body.agent.apiKey
      /\ (loc[p].op = "register" /\ loc[p].code # 201) => loc[p].body \in STRING
      /\ loc[p].op = "listAgents" =>
           /\ loc[p].code = 200
           /\ \A i \in 1..Len(loc[p].body) :
                /\ \A key \in IssuedKeys : ~Contains(loc[p].body[i].apiKey, key)
                /\ loc[p].body[i].id \in DOMAIN agents
                /\ \A f \in DOMAIN agents[loc[p].body[i].id] \ {"apiKey"} :
                     loc[p].body[i][f] = agents[loc[p].body[i].id][f]

\* The listing has answered two Agents, each with the first ten characters of
\* its key followed by three dots.
C29_Witness ==
  \E p \in Procs :
    /\ pc[p] = "respond" /\ loc[p].op = "listAgents"
    /\ Len(loc[p].body) = 2
    /\ \A i \in 1..2 :
         /\ Len(loc[p].body[i].apiKey) = 13
         /\ SubSeq(loc[p].body[i].apiKey, 1, 10) = SubSeq(agents[loc[p].body[i].id].apiKey, 1, 10)
         /\ Len(agents[loc[p].body[i].id].apiKey) = 3 + KeyChars

C28_WitnessAgent ==
  /\ pc[2] = "respond" /\ loc[2].op = "agentApply" /\ loc[2].code = 401
  /\ loc[2].body = "Unauthorized: Invalid API key"
  /\ DOMAIN agentByApiKey # {}

\* The fields of an Application no review is to touch.
SubmittedFields ==
  {"id", "taskId", "taskTitle", "walletAddress", "proofType", "proofContent", "submittedAt"}

\* C33: no step changes the id, taskId, taskTitle, walletAddress, proofType,
\* proofContent or submittedAt of a stored Application, and no Application
\* is ever removed; a step of a review changes at most the status, reviewedAt,
\* txSignature and paidAt of the Application it reviews and no other
\* Application.
C33_ReviewFrame ==
  [][/\ \A a \in DOMAIN apps :
          /\ a \in DOMAIN apps'
          /\ SubmittedFields \subseteq DOMAIN apps'[a]
          /\ \A f \in SubmittedFields : apps'[a][f] = apps[a][f]
          /\ apps'[a].id = a
     /\ \A p \in Procs :
          (Steps(p) /\ pc[p] \in ReviewLabels) =>
            /\ DOMAIN apps' = DOMAIN apps
            /\ \A a \in DOMAIN apps \ {loc[p].id} : apps'[a] = apps[a]
            /\ loc[p].id \in DOMAIN apps =>
                 \A f \in DOMAIN apps'[loc[p].id] :
                   f \in SubmittedFields \cup {"status", "reviewedAt", "txSignature", "paidAt"}]_vars

\* An Application has been reviewed twice, approved and paid by one review and
\* rejected by the other, and still has the fields it was submitted with.
C33_Witness ==
  /\ AllIdle
  /\ \E a \in DOMAIN apps :
       /\ PayoutsFor(a) = 1
       /\ apps[a].status = "rejected"
       /\ apps[a].taskTitle = "A" /\ apps[a].walletAddress \in Wallets

\* C31: the write of a completion increment changes nothing but
\* totalCompletions in the stored Task, so that an admin update completed in
\* the meantime keeps its field values, and it leaves active_tasks holding the
\* id exactly when the stored active flag is true if that was so before.
C31_IncrementKeepsUpdate ==
  [][\A p \in Procs :
       (pc[p] = "itc_set" /\ Steps(p) /\ loc[p].application.taskId \in DOMAIN tasks) =>
         LET t == loc[p].application.taskId
         IN /\ DOMAIN tasks'[t] = DOMAIN tasks[t]
            /\ \A f \in DOMAIN tasks[t] \ {"totalCompletions"} : tasks'[t][f] = tasks[t][f]
            /\ (t \in activeTasks <=> tasks[t].active) =>
                 (t \in activeTasks' <=> tasks'[t].active)]_vars

\* C32: a deleted Task stays deleted.  createTask is the only writer of a
\* key that does not exist, and it draws a fresh id; so a step that writes the
\* record of an id that has none is a creation, or the delete of that id is
\* still running.
C32_DeletedStaysDeleted ==
  [][\A t \in 1..MaxTasks :
       (t \notin DOMAIN tasks /\ t \in DOMAIN tasks') =>
         \/ \E p \in Procs : pc[p] = "ct_set" /\ Steps(p) /\ loc[p].task.id = t
         \/ \E q \in Procs : pc[q] \in {"dt_sremAll", "dt_sremActive"} /\ loc[q].id = t]_vars

====
